---- MODULE Spec2Model ----
(***************************************************************************)
(* A model of src/lib/events.ts: the event colour pipeline (getEvents,     *)
(* getRecentEvents, getUpcomingEvents) and its helpers (hslToHex,          *)
(* makePastel, the colorValidator pixel filter, hardcodeEventColors).      *)
(*                                                                         *)
(* Numbers.  The source works on IEEE doubles; the model works on exact    *)
(* fixed-point integers:                                                   *)
(*   hue         whole degrees, d stands for the fraction d/360            *)
(*   saturation  thousandths,   s stands for s/1000                        *)
(*   lightness   hundredths,    l stands for l/100                         *)
(*   intensity, area            abstract integer scores                    *)
(* Saturations are drawn from multiples of 10, so 0.7 * saturation is an   *)
(* exact number of thousandths.                                            *)
(***************************************************************************)
EXTENDS Integers, Sequences, FiniteSets, TLC

VARIABLES
    rows,              \* what AirtableEventsManager.getAllEvents() yields (normalised)
    events,            \* getEvents: const events = await fetchEvents()
    pc,                \* position of the getEvents / getRecentEvents call
    i,                 \* index of the loop over events.filter(...)
    recoloredEvents,   \* getEvents: const recoloredEvents = []
    eventsWithColors,  \* value getEvents returns
    recentEvents,      \* value getRecentEvents returns
    upcomingEvents,    \* outcome of a getUpcomingEvents call (<<>> before the call)
    error,             \* what a rejected call was rejected with
    started,           \* history: ids of the events whose logo fetch was started
    attempts,          \* history: one record per finished loop iteration
    pixel,             \* argument of a colorValidator call
    accepted,          \* <<result>> of that call
    color,             \* argument of a makePastel call
    pastelColor        \* <<result>> of that call

vars == <<rows, events, pc, i, recoloredEvents, eventsWithColors, recentEvents,
          upcomingEvents, error, started, attempts, pixel, accepted, color,
          pastelColor>>

-----------------------------------------------------------------------------
(* Bounds *)

MaxEvents == 2
MaxOverrideEvents == 1

-----------------------------------------------------------------------------
(* Arithmetic helpers: Math.abs, Math.min, and Math.round of a             *)
(* non-negative rational n/d (halves round up, as Math.round does).        *)

Abs(x) == IF x < 0 THEN -x ELSE x

Min(a, b) == IF a < b THEN a ELSE b

Round(n, d) == (2 * n + d) \div (2 * d)

-----------------------------------------------------------------------------
(* hslToHex, lines 45-78 *)

HexChars == <<"0", "1", "2", "3", "4", "5", "6", "7",
              "8", "9", "a", "b", "c", "d", "e", "f">>

RECURSIVE ToString16(_)
\* Number.prototype.toString(16), as the sequence of its characters
ToString16(n) ==
    IF n < 16 THEN <<HexChars[n + 1]>>
    ELSE Append(ToString16(n \div 16), HexChars[(n % 16) + 1])

RECURSIVE Join(_)
Join(chars) == IF chars = <<>> THEN "" ELSE Head(chars) \o Join(Tail(chars))

\* r, g, b of hslToHex after the Math.round lines, as <<r, g, b>>.
\* With ch = (50 - |lightness - 50|) * saturation, all of c, x and m are
\* multiples of 1/3000000:  c = 60 ch, x = ch * (60 - |hue mod 120 - 60|),
\* m = 30 * (1000 * lightness - ch).
hslToRgb(hue, saturation, lightness) ==
    LET ch == (50 - Abs(lightness - 50)) * saturation
        c  == 60 * ch
        x  == ch * (60 - Abs((hue % 120) - 60))
        m  == 30 * (1000 * lightness - ch)
        d  == 3000000
        rgb == IF hue < 60 THEN <<c, x, 0>>
               ELSE IF hue < 120 THEN <<x, c, 0>>
               ELSE IF hue < 180 THEN <<0, c, x>>
               ELSE IF hue < 240 THEN <<0, x, c>>
               ELSE IF hue < 300 THEN <<x, 0, c>>
               ELSE <<c, 0, x>>
    IN  <<Round((rgb[1] + m) * 255, d),
          Round((rgb[2] + m) * 255, d),
          Round((rgb[3] + m) * 255, d)>>

hslToHex(hue, saturation, lightness) ==
    LET rgb == hslToRgb(hue, saturation, lightness)
        n   == 16777216 + rgb[1] * 65536 + rgb[2] * 256 + rgb[3]
    IN  "#" \o Join(Tail(ToString16(n)))

-----------------------------------------------------------------------------
(* makePastel, lines 80-96 *)

\* the two thresholds taken inclusively
makePastelInclusive(c) ==
    IF c.saturation <= 300 \/ c.lightness >= 75 THEN c
    ELSE [c EXCEPT !.hex = hslToHex(c.hue, (c.saturation * 7) \div 10,
                                    Min(c.lightness + 10, 90)),
                   !.saturation = (c.saturation * 7) \div 10,
                   !.lightness = Min(c.lightness + 10, 90)]

makePastel(c) ==
    LET isPastel   == c.saturation < 300 \/ c.lightness > 75
        hue        == c.hue
        saturation == (c.saturation * 7) \div 10
        lightness  == Min(c.lightness + 10, 90)
    IN  IF isPastel THEN c
        ELSE [c EXCEPT !.hex = hslToHex(hue, saturation, lightness),
                       !.saturation = saturation,
                       !.lightness = lightness]

-----------------------------------------------------------------------------
(* colorValidator, lines 113-116.  alphaArg is <<>> when the caller passes *)
(* no alpha and <<a>> otherwise.                                           *)

\* the alpha threshold taken inclusively
colorValidatorInclusive(red, green, blue, alphaArg) ==
    LET alpha == IF alphaArg = <<>> THEN 255 ELSE alphaArg[1]
        greyShade == /\ Abs(red - green) < 30
                     /\ Abs(red - blue) < 30
                     /\ Abs(green - blue) < 30
    IN  alpha >= 200 /\ ~greyShade

colorValidator(red, green, blue, alphaArg) ==
    LET alpha == IF alphaArg = <<>> THEN 255 ELSE alphaArg[1]
        greyShade == /\ Abs(red - green) < 30
                     /\ Abs(red - blue) < 30
                     /\ Abs(green - blue) < 30
    IN  alpha > 200 /\ ~greyShade

-----------------------------------------------------------------------------
(* hardcodeEventColors, lines 150-172 *)

shouldBeSetToWhite ==
    {"Horizon", "Halo", "Alpine", "Harvest", "LoneStar", "Think Like a Programmer"}

shouldBeSetToASpecificNonWhiteColor ==
    <<  <<"Luna", "#c8a2e0">>,
        <<"Spark", "#eadfff">>,
        <<"Ascend", "#2B028B">>,
        <<"Blossom", "#FFD3E0">>  >>

\* Array.prototype.find: the first entry whose name matches
FindEntry(name) ==
    LET hits == {k \in 1..Len(shouldBeSetToASpecificNonWhiteColor) :
                    shouldBeSetToASpecificNonWhiteColor[k][1] = name}
    IN  shouldBeSetToASpecificNonWhiteColor[CHOOSE k \in hits : \A j \in hits : k <= j]

\* the override written to both colour fields
hardcodeEventColorsBoth(event) ==
    IF event.name \in shouldBeSetToWhite
    THEN [event EXCEPT !.logoPreviewBackgroundColor = "#FFFFFF", !.tagColor = "#FFFFFF"]
    ELSE IF \E k \in 1..Len(shouldBeSetToASpecificNonWhiteColor) :
                shouldBeSetToASpecificNonWhiteColor[k][1] = event.name
    THEN [event EXCEPT !.logoPreviewBackgroundColor = FindEntry(event.name)[2],
                       !.tagColor = FindEntry(event.name)[2]]
    ELSE event

hardcodeEventColors(event) ==
    IF event.name \in shouldBeSetToWhite
    THEN [event EXCEPT !.logoPreviewBackgroundColor = "#FFFFFF"]
    ELSE IF \E k \in 1..Len(shouldBeSetToASpecificNonWhiteColor) :
                shouldBeSetToASpecificNonWhiteColor[k][1] = event.name
    THEN [event EXCEPT !.logoPreviewBackgroundColor = FindEntry(event.name)[2]]
    ELSE event

-----------------------------------------------------------------------------
(* The world outside the module: the logo images behind the URLs and what  *)
(* the extract-colors library finds in them.                               *)

Absent == "undefined"            \* a record without a Logo field

hackClubLogo == "hackClubLogo"   \* '@/constants', the default logo URL

Crimson == [hex |-> "#ec3750", hue |-> 352, saturation |-> 820, lightness |-> 57,
            intensity |-> 9, area |-> 40]

Teal == [hex |-> "#1f9e8f", hue |-> 173, saturation |-> 670, lightness |-> 37,
         intensity |-> 6, area |-> 30]

Amber == [hex |-> "#ffbf00", hue |-> 45, saturation |-> 1000, lightness |-> 50,
          intensity |-> 6, area |-> 20]

Mist == [hex |-> "#dfe7ee", hue |-> 208, saturation |-> 310, lightness |-> 90,
         intensity |-> 2, area |-> 10]

\* The colours the quantizer finds among the accepted pixels of each image.
\* "grey.png" has no pixel that passes the colorValidator.
Image(url) ==
    CASE url = hackClubLogo -> {Crimson}
      [] url = "luna.png"   -> {Mist, Teal}
      [] url = "wide.png"   -> {Crimson, Teal, Amber, Mist}
      [] url = "grey.png"   -> {}

\* extractColors resolves with the image's colours in an order of its own.
Orderings(S) ==
    {s \in [1..Cardinality(S) -> S] : \A a, b \in 1..Cardinality(S) : s[a] = s[b] => a = b}

\* The rows of the data source, as fetchEvents normalises them (lines 28-41);
\* only the fields the colour pipeline reads are kept.
Rows(n, Names, Statuses, Logos) ==
    {[k \in 1..n |-> [id |-> k, name |-> f[k].name, status |-> f[k].status,
                      logo |-> f[k].logo]] :
        f \in [1..n -> [name : Names, status : Statuses, logo : Logos]]}

-----------------------------------------------------------------------------
(* getEvents, lines 98-135 *)

\* events.filter(e => e.status !== "Upcoming"), line 102
\* (the filter with the wrong status: filteredNotActive)
filteredNotActive(evs) == SelectSeq(evs, LAMBDA e : e.status /= "Active")

filtered(evs) == SelectSeq(evs, LAMBDA e : e.status /= "Upcoming")

\* event.logo || hackClubLogo, line 104
logoUrl(event) == IF event.logo = Absent THEN hackClubLogo ELSE event.logo

\* the library's order, kept as it came
sortSkipped(colors) == colors

RECURSIVE sort(_)
\* colors.sort((a, b) => b.intensity - a.intensity), line 119: a stable sort
sort(colors) ==
    IF colors = <<>> THEN <<>>
    ELSE LET n     == Len(colors)
             last  == colors[n]
             front == sort(SubSeq(colors, 1, n - 1))
             keep  == Cardinality({k \in 1..Len(front) :
                                      front[k].intensity >= last.intensity})
         IN  SubSeq(front, 1, keep) \o <<last>> \o SubSeq(front, keep + 1, Len(front))

\* the object spread of lines 128-132
withColors(event, tag, background) ==
    [id |-> event.id, name |-> event.name, status |-> event.status, logo |-> event.logo,
     tagColor |-> tag, logoPreviewBackgroundColor |-> background]

current == filtered(events)[i]

afterIteration == IF i < Len(filtered(events)) THEN "fetch" ELSE "map"

\* const events = await fetchEvents(), the listing succeeds
fetchEventsOk ==
    /\ pc = "start"
    /\ events' = rows
    /\ i' = 1
    /\ pc' = IF filtered(rows) = <<>> THEN "map" ELSE "fetch"
    /\ UNCHANGED <<rows, recoloredEvents, eventsWithColors, recentEvents,
                   upcomingEvents, error, started, attempts,
                   pixel, accepted, color, pastelColor>>

\* getAllEvents() rejects: nothing catches it, the call rejects
fetchEventsFails ==
    /\ pc = "start"
    /\ pc' = "threw"
    /\ error' = "listing"
    /\ UNCHANGED <<rows, events, i, recoloredEvents, eventsWithColors, recentEvents,
                   upcomingEvents, started, attempts,
                   pixel, accepted, color, pastelColor>>

\* await axios.get(...) resolves, line 104
axiosGet ==
    /\ pc = "fetch"
    /\ started' = started \cup {current.id}
    /\ pc' = "decode"
    /\ UNCHANGED <<rows, events, i, recoloredEvents, eventsWithColors, recentEvents,
                   upcomingEvents, error, attempts,
                   pixel, accepted, color, pastelColor>>

\* await sharp(...).raw().toBuffer(...) resolves, line 107
sharpDecode ==
    /\ pc = "decode"
    /\ pc' = "extract"
    /\ UNCHANGED <<rows, events, i, recoloredEvents, eventsWithColors, recentEvents,
                   upcomingEvents, error, started, attempts,
                   pixel, accepted, color, pastelColor>>

\* await extractColors(...) resolves; lines 112-122
extractColorsOk ==
    /\ pc = "extract"
    /\ \E colors \in Orderings(Image(logoUrl(current))) :
          LET sortedColors == sort(colors)
              pastel == [k \in 1..Len(sortedColors) |-> makePastel(sortedColors[k])]
          IN  /\ recoloredEvents' =
                    Append(recoloredEvents,
                           [colors |-> [pastel |-> pastel, intense |-> sortedColors]])
              /\ attempts' = Append(attempts, [id |-> current.id, url |-> logoUrl(current),
                                               ok |-> TRUE, threw |-> "", colors |-> colors])
    /\ i' = i + 1
    /\ pc' = afterIteration
    /\ UNCHANGED <<rows, events, eventsWithColors, recentEvents,
                   upcomingEvents, error, started,
                   pixel, accepted, color, pastelColor>>

\* the awaited fetch, decode or extraction throws: catch (e), lines 123-125
catchError ==
    /\ pc \in {"fetch", "decode", "extract"}
    /\ started' = started \cup {current.id}
    /\ attempts' = Append(attempts, [id |-> current.id, url |-> logoUrl(current),
                                     ok |-> FALSE, threw |-> pc, colors |-> <<>>])
    /\ i' = i + 1
    /\ pc' = afterIteration
    /\ UNCHANGED <<rows, events, recoloredEvents, eventsWithColors, recentEvents,
                   upcomingEvents, error,
                   pixel, accepted, color, pastelColor>>

\* recoloredEvents.map(...), lines 128-134, every entry has a first colour
mapOk ==
    /\ pc = "map"
    /\ \A k \in 1..Len(recoloredEvents) : recoloredEvents[k].colors.intense /= <<>>
    /\ eventsWithColors' =
          [k \in 1..Len(recoloredEvents) |->
              hardcodeEventColors(withColors(events[k],
                                             recoloredEvents[k].colors.intense[1].hex,
                                             recoloredEvents[k].colors.pastel[1].hex))]
    /\ pc' = "done"
    /\ UNCHANGED <<rows, events, i, recoloredEvents, recentEvents,
                   upcomingEvents, error, started, attempts,
                   pixel, accepted, color, pastelColor>>

\* recoloredEvents.map(...): intense[0] is undefined for some entry, and
\* reading .hex of it throws a TypeError outside the try block
mapThrows ==
    /\ pc = "map"
    /\ \E k \in 1..Len(recoloredEvents) : recoloredEvents[k].colors.intense = <<>>
    /\ pc' = "threw"
    /\ error' = "TypeError"
    /\ UNCHANGED <<rows, events, i, recoloredEvents, eventsWithColors, recentEvents,
                   upcomingEvents, started, attempts,
                   pixel, accepted, color, pastelColor>>

-----------------------------------------------------------------------------
(* getRecentEvents, lines 142-145: the awaited getEvents() is the run      *)
(* above; a rejection of it rejects getRecentEvents too.                   *)

getRecentEvents ==
    /\ pc = "done"
    /\ recentEvents' = SelectSeq(eventsWithColors, LAMBDA e : e.status = "Complete")
    /\ pc' = "recent"
    /\ UNCHANGED <<rows, events, i, recoloredEvents, eventsWithColors,
                   upcomingEvents, error, started, attempts,
                   pixel, accepted, color, pastelColor>>

(* getUpcomingEvents, lines 137-140: a call of its own, made once the call *)
(* above has settled, over the same rows.  Its own fetchEvents() either    *)
(* resolves with the rows or rejects, and nothing catches the rejection.   *)

getUpcomingEvents ==
    /\ pc \in {"recent", "threw"}
    /\ upcomingEvents = <<>>
    /\ \/ upcomingEvents' =
             <<[rejected |-> FALSE,
                list |-> SelectSeq(rows, LAMBDA e : e.status = "Upcoming"
                                                      \/ e.status = "Active")]>>
       \/ upcomingEvents' = <<[rejected |-> TRUE, list |-> <<>>]>>
    /\ UNCHANGED <<rows, events, pc, i, recoloredEvents, eventsWithColors, recentEvents,
                   error, started, attempts,
                   pixel, accepted, color, pastelColor>>

Next ==
    \/ fetchEventsOk
    \/ fetchEventsFails
    \/ axiosGet
    \/ sharpDecode
    \/ extractColorsOk
    \/ catchError
    \/ mapOk
    \/ mapThrows
    \/ getRecentEvents
    \/ getUpcomingEvents

Pipeline(rowSet) ==
    /\ rows \in rowSet
    /\ events = <<>>
    /\ pc = "start"
    /\ i = 1
    /\ recoloredEvents = <<>>
    /\ eventsWithColors = <<>>
    /\ recentEvents = <<>>
    /\ upcomingEvents = <<>>
    /\ error = ""
    /\ started = {}
    /\ attempts = <<>>
    /\ pixel = <<>>
    /\ accepted = <<>>
    /\ color = <<>>
    /\ pastelColor = <<>>

Init ==
    Pipeline(UNION {Rows(n, {"Luna", "Zenith"}, {"Upcoming", "Active", "Complete"},
                         {Absent, "luna.png", "grey.png"}) : n \in 0..MaxEvents})

Spec == Init /\ [][Next]_vars

\* every name of the two override tables, and one of neither
InitOverride ==
    Pipeline(UNION {Rows(n, shouldBeSetToWhite
                              \cup {"Luna", "Spark", "Ascend", "Blossom", "Zenith"},
                         {"Upcoming", "Complete"},
                         {Absent, "luna.png", "grey.png"}) : n \in 1..MaxOverrideEvents})

SpecOverride == InitOverride /\ [][Next]_vars

\* one event whose logo has four colours, two of them equally intense
InitSort ==
    Pipeline(Rows(1, {"Zenith"}, {"Upcoming", "Active", "Complete"},
                  {"wide.png", "grey.png"}))

SpecSort == InitSort /\ [][Next]_vars

-----------------------------------------------------------------------------
(* The pixel filter on its own: one call of the colorValidator callback of *)
(* lines 113-116 on one pixel.                                             *)

Channels == {0, 29, 30, 50, 98, 100, 102, 129, 130, 200, 255}

AlphaArgs == {<<>>, <<0>>, <<199>>, <<200>>, <<201>>, <<255>>}

InitValidator ==
    /\ pixel \in {<<p>> : p \in [red : Channels, green : Channels, blue : Channels,
                                 alpha : AlphaArgs]}
    /\ accepted = <<>>
    /\ color = <<>>
    /\ pastelColor = <<>>
    /\ rows = <<>>
    /\ events = <<>>
    /\ pc = "idle"
    /\ i = 1
    /\ recoloredEvents = <<>>
    /\ eventsWithColors = <<>>
    /\ recentEvents = <<>>
    /\ upcomingEvents = <<>>
    /\ error = ""
    /\ started = {}
    /\ attempts = <<>>

callColorValidator ==
    /\ pixel /= <<>>
    /\ accepted = <<>>
    /\ accepted' = <<colorValidator(pixel[1].red, pixel[1].green, pixel[1].blue,
                                    pixel[1].alpha)>>
    /\ UNCHANGED <<rows, events, pc, i, recoloredEvents, eventsWithColors, recentEvents,
                   upcomingEvents, error, started, attempts, pixel, color, pastelColor>>

NextValidator == callColorValidator

SpecValidator == InitValidator /\ [][NextValidator]_vars

-----------------------------------------------------------------------------
(* makePastel on its own: one call on one colour (lines 80-96).            *)

Hues == {0, 30, 59, 60, 173, 240, 352, 360}

Saturations == {0, 150, 290, 300, 310, 670, 1000}

Lightnesses == {0, 37, 50, 74, 75, 76, 79, 80, 81, 90, 100}

InitPastel ==
    /\ color \in {<<[hex |-> "#123abc", hue |-> h, saturation |-> s, lightness |-> l,
                     intensity |-> 4, area |-> 25]>> :
                     h \in Hues, s \in Saturations, l \in Lightnesses}
    /\ pastelColor = <<>>
    /\ pixel = <<>>
    /\ accepted = <<>>
    /\ rows = <<>>
    /\ events = <<>>
    /\ pc = "idle"
    /\ i = 1
    /\ recoloredEvents = <<>>
    /\ eventsWithColors = <<>>
    /\ recentEvents = <<>>
    /\ upcomingEvents = <<>>
    /\ error = ""
    /\ started = {}
    /\ attempts = <<>>

callMakePastel ==
    /\ color /= <<>>
    /\ pastelColor = <<>>
    /\ pastelColor' = <<makePastel(color[1])>>
    /\ UNCHANGED <<rows, events, pc, i, recoloredEvents, eventsWithColors, recentEvents,
                   upcomingEvents, error, started, attempts, pixel, accepted, color>>

NextPastel == callMakePastel

SpecPastel == InitPastel /\ [][NextPastel]_vars

-----------------------------------------------------------------------------
(* Vocabulary of the properties *)

Elems(seq) == {seq[k] : k \in 1..Len(seq)}

\* getEvents has returned a list
Returned == pc \in {"done", "recent"}

\* the processing of the event with this id threw / ran through
Threw(id) == \E a \in Elems(attempts) : a.id = id /\ ~a.ok

Succeeded(id) == \E a \in Elems(attempts) : a.id = id /\ a.ok

OutputIds == {o.id : o \in Elems(eventsWithColors)}

InOverrideTables(name) ==
    name \in {"Horizon", "Halo", "Alpine", "Harvest", "LoneStar", "Think Like a Programmer",
              "Luna", "Spark", "Ascend", "Blossom"}

MostIntense(c, colors) == c \in Elems(colors) /\ \A d \in Elems(colors) : d.intensity <= c.intensity

-----------------------------------------------------------------------------
\* C1: in the list getEvents returns, a non-Upcoming event whose fetch, decode
\* or extraction threw is absent (by id), and every non-Upcoming event whose
\* processing succeeded is present.
C1_FailedDroppedOthersKept ==
    Returned =>
        \A e \in Elems(events) :
            e.status /= "Upcoming" =>
                /\ Threw(e.id) => e.id \notin OutputIds
                /\ Succeeded(e.id) => e.id \in OutputIds

\* C2: every returned event carries the colours of its own logo: tagColor is
\* the hex of the most intense colour extracted from event.logo (or the default
\* logo), and, for a name in neither override table, logoPreviewBackgroundColor
\* is the hex of that colour's pastel variant.
C2_OwnLogoColours ==
    Returned =>
        \A o \in Elems(eventsWithColors) :
            \E a \in Elems(attempts) :
                /\ a.id = o.id
                /\ a.ok
                /\ a.url = (IF o.logo = Absent THEN hackClubLogo ELSE o.logo)
                /\ \E c \in Elems(a.colors) :
                      /\ MostIntense(c, a.colors)
                      /\ o.tagColor = c.hex
                      /\ ~InOverrideTables(o.name)
                            => o.logoPreviewBackgroundColor = makePastel(c).hex

\* C3: no event with status "Upcoming" is in the list getEvents returns.
C3_NoUpcomingReturned ==
    Returned => \A o \in Elems(eventsWithColors) : o.status /= "Upcoming"

\* C4: every "Complete" event whose fetch, decode and extraction succeeded with
\* at least one colour is in the list getRecentEvents returns, and every event of
\* that list is "Complete" and an element of what getEvents returned.
C4_RecentComplete ==
    pc = "recent" =>
        /\ \A e \in Elems(events) :
              (/\ e.status = "Complete"
               /\ \E a \in Elems(attempts) : a.id = e.id /\ a.ok /\ a.colors /= <<>>)
              => e.id \in {r.id : r \in Elems(recentEvents)}
        /\ \A r \in Elems(recentEvents) :
              r.status = "Complete" /\ r \in Elems(eventsWithColors)

\* C5: once the listing has succeeded getEvents never rejects, whatever the
\* per-event outcomes, an empty colour sequence included: it rejects only with
\* the listing's own failure.
C5_OnlyListingRejects ==
    pc = "threw" => error = "listing"

\* C6: hardcodeEventColors sets logoPreviewBackgroundColor to "#FFFFFF" for the
\* six white names, to the table hex for Luna, Spark, Ascend and Blossom, leaves
\* it as derived otherwise, and changes no other field; so a returned "Horizon"
\* has "#FFFFFF" and a returned "Luna" has "#c8a2e0".
C6_Expected(name, derived) ==
    IF name \in {"Horizon", "Halo", "Alpine", "Harvest", "LoneStar",
                 "Think Like a Programmer"} THEN "#FFFFFF"
    ELSE CASE name = "Luna"    -> "#c8a2e0"
           [] name = "Spark"   -> "#eadfff"
           [] name = "Ascend"  -> "#2B028B"
           [] name = "Blossom" -> "#FFD3E0"
           [] OTHER            -> derived

C6_Derived(k) ==
    [id |-> events[k].id, name |-> events[k].name, status |-> events[k].status,
     logo |-> events[k].logo,
     tagColor |-> recoloredEvents[k].colors.intense[1].hex,
     logoPreviewBackgroundColor |-> recoloredEvents[k].colors.pastel[1].hex]

C6_OverrideFrame ==
    Returned =>
        \A k \in 1..Len(eventsWithColors) :
            LET d == C6_Derived(k)
                o == eventsWithColors[k]
            IN  /\ o = [d EXCEPT !.logoPreviewBackgroundColor =
                                    C6_Expected(d.name, d.logoPreviewBackgroundColor)]
                /\ o.name = "Horizon" => o.logoPreviewBackgroundColor = "#FFFFFF"
                /\ o.name = "Luna" => o.logoPreviewBackgroundColor = "#c8a2e0"

\* C6, witness: a returned "Horizon" whose derived background was not white
C6_Witness ==
    /\ Returned
    /\ \E k \in 1..Len(eventsWithColors) :
          /\ eventsWithColors[k].name = "Horizon"
          /\ C6_Derived(k).logoPreviewBackgroundColor /= "#FFFFFF"
          /\ eventsWithColors[k].logoPreviewBackgroundColor = "#FFFFFF"
          /\ eventsWithColors[k].tagColor = C6_Derived(k).tagColor

\* C7 as stated: no logo fetch is ever started for an event whose status is
\* "Upcoming" or "Active".
C7_NoFetchUpcomingOrActive ==
    \A e \in Elems(events) : e.id \in started => e.status \notin {"Upcoming", "Active"}

\* C7 as amended: no logo fetch is ever started for an event whose status is
\* "Upcoming".
C7_NoFetchUpcoming ==
    \A e \in Elems(events) : e.id \in started => e.status /= "Upcoming"

\* C7, witness: the loop is over, some logo was fetched and an "Upcoming" event
\* of the list was passed over
C7_Witness ==
    /\ pc = "map"
    /\ started /= {}
    /\ \E e \in Elems(events) : e.status = "Upcoming" /\ e.id \notin started

\* C8: makePastel returns its argument unchanged when saturation < 0.3 or
\* lightness > 0.75; otherwise it keeps hue, intensity and area, scales the
\* saturation by 0.7, sets lightness to min(lightness + 0.1, 0.9) <= 0.9 and
\* recomputes hex from the new hue, saturation and lightness.
C8_MakePastel ==
    pastelColor /= <<>> =>
        LET c == color[1]
            p == pastelColor[1]
        IN  IF c.saturation < 300 \/ c.lightness > 75
            THEN p = c
            ELSE /\ p.hue = c.hue
                 /\ 10 * p.saturation = 7 * c.saturation
                 /\ p.lightness = (IF c.lightness + 10 < 90 THEN c.lightness + 10 ELSE 90)
                 /\ p.lightness <= 90
                 /\ p.hex = hslToHex(p.hue, p.saturation, p.lightness)
                 /\ p.intensity = c.intensity
                 /\ p.area = c.area

\* C8, witness: a colour on both thresholds (saturation 0.3, lightness 0.75)
\* was transformed
C8_Witness ==
    /\ pastelColor /= <<>>
    /\ color[1].saturation = 300
    /\ color[1].lightness = 75
    /\ pastelColor[1].saturation = 210
    /\ pastelColor[1].lightness = 85
    /\ pastelColor[1].hex /= color[1].hex

\* C9: the pixel filter accepts (r, g, b, a) iff a > 200 and the three pairwise
\* channel differences are not all below 30; a missing alpha counts as 255;
\* (100,102,98,255) is rejected, (200,50,50,255) accepted, a <= 200 rejected.
C9_PixelFilter ==
    accepted /= <<>> =>
        LET p == pixel[1]
            a == IF p.alpha = <<>> THEN 255 ELSE p.alpha[1]
            chans == {p.red, p.green, p.blue}
            grey == \A x, y \in chans : x - y < 30
        IN  /\ accepted[1] <=> (a > 200 /\ ~grey)
            /\ a <= 200 => ~accepted[1]
            /\ (p.red = 100 /\ p.green = 102 /\ p.blue = 98 /\ a = 255) => ~accepted[1]
            /\ (p.red = 200 /\ p.green = 50 /\ p.blue = 50 /\ a = 255) => accepted[1]

\* C9, witness: a colourful pixel of alpha exactly 200 was rejected
C9_Witness ==
    /\ accepted = <<FALSE>>
    /\ pixel[1].red = 200 /\ pixel[1].green = 50 /\ pixel[1].blue = 50
    /\ pixel[1].alpha = <<200>>

\* C10: for every successfully processed event the stored intense sequence is a
\* permutation of the colours the library returned, non-increasing in intensity,
\* and pastel has the same length with pastel[k] = makePastel(intense[k]); so
\* their first elements are the most intense colour and its pastel variant.
C10_Successes == SelectSeq(attempts, LAMBDA a : a.ok)

C10_Count(c, seq) == Cardinality({k \in 1..Len(seq) : seq[k] = c})

C10_SortedPalette ==
    /\ Len(recoloredEvents) = Len(C10_Successes)
    /\ \A n \in 1..Len(recoloredEvents) :
          LET extracted == C10_Successes[n].colors
              intense   == recoloredEvents[n].colors.intense
              pastel    == recoloredEvents[n].colors.pastel
          IN  /\ Len(intense) = Len(extracted)
              /\ \A c \in Elems(extracted) \cup Elems(intense) :
                    C10_Count(c, intense) = C10_Count(c, extracted)
              /\ \A k \in 1..(Len(intense) - 1) :
                    intense[k].intensity >= intense[k + 1].intensity
              /\ Len(pastel) = Len(intense)
              /\ \A k \in 1..Len(intense) : pastel[k] = makePastel(intense[k])
              /\ intense /= <<>> =>
                    /\ MostIntense(intense[1], extracted)
                    /\ pastel[1] = makePastel(intense[1])

\* C10, witness: four colours came back with the least intense first and were
\* stored in another order
C10_Witness ==
    \E n \in 1..Len(recoloredEvents) :
        /\ Len(C10_Successes[n].colors) = 4
        /\ C10_Successes[n].colors[1] = Mist
        /\ recoloredEvents[n].colors.intense /= C10_Successes[n].colors
        /\ recoloredEvents[n].colors.intense[1] = Crimson

====
